---------------------------- MODULE Spec2Model ----------------------------
(***************************************************************************)
(* WordpressReader (llama_index/readers/wordpress/base.py): the            *)
(* constructor, load_data, get_all_posts and get_posts_page, run against a *)
(* remote site whose answers are part of the state.                        *)
(*                                                                         *)
(* Text is modelled as a sequence of pieces.  In additional_post_types a   *)
(* piece is a comma, a blank or a whole word ("posts", "docs", "pages"):   *)
(* the words are letters only and no word is a prefix of another, so two   *)
(* texts are equal exactly when their piece sequences are.  A header text  *)
(* is a sequence of single characters.                                     *)
(***************************************************************************)
EXTENDS Integers, Sequences, FiniteSets, TLC

VARIABLES
    args,            \* the arguments __init__ was called with
    self,            \* the reader's attributes
    server,          \* the remote site: post type -> page number -> response
    pc,              \* "idle" | "for_post_type" | "get_all_posts" | "for_article"
    calls,           \* load_data() calls finished so far
    idx,             \* load_data: position of the for loop over self.post_types
    posts,           \* get_all_posts: posts
    next_page,       \* get_all_posts: next_page
    pages_fetched,   \* get_all_posts: pages_fetched
    articles,        \* load_data: articles
    results,         \* load_data: results
    art,             \* load_data: position of the for loop over articles
    requests,        \* the requests.get calls of the current/last load_data()
    returned_posts,  \* the get_all_posts returns of the current/last load_data()
    outcome,         \* how the last load_data() ended
    prev             \* requests and outcome of the load_data() before the last

vars == <<args, self, server, pc, calls, idx, posts, next_page, pages_fetched,
          articles, results, art, requests, returned_posts, outcome, prev>>

\* ------------------------------------------------------------- bounds
MaxLen == 3        \* pieces in additional_post_types
MaxPage == 3       \* pages the remote site answers for
MaxItems == 2      \* items on one page
MaxCalls == 2      \* load_data() calls on one reader

\* ------------------------------------------------------------- values
None == [tag |-> "None"]
Str(s) == [tag |-> "str", s |-> s]
Dict(d) == [tag |-> "dict", d |-> d]
EmptyDict == Dict(<<>>)

Range(s) == {s[i] : i \in DOMAIN s}
Min(a, b) == IF a <= b THEN a ELSE b
Max(a, b) == IF a >= b THEN a ELSE b

RECURSIVE Concat(_)
Concat(ss) == IF ss = <<>> THEN <<>> ELSE Head(ss) \o Concat(Tail(ss))

SeqsUpTo(S, n) == UNION {[1..k -> S] : k \in 0..n}

\* ------------------------------------------------------------- __init__
Comma == ","
Blank == " "
Alphabet == {"posts", "docs", Comma, Blank}

\* str.split(","): the segments between the commas, at least one.
RECURSIVE split(_)
split(s) ==
    IF \A i \in DOMAIN s : s[i] # Comma
    THEN <<s>>
    ELSE LET c == CHOOSE i \in DOMAIN s :
                      s[i] = Comma /\ \A j \in 1..(i - 1) : s[j] # Comma
         IN <<SubSeq(s, 1, c - 1)>> \o split(SubSeq(s, c + 1, Len(s)))

\* str.strip(): without the leading and the trailing blanks.
RECURSIVE strip(_)
strip_keep(s) == s
strip(s) ==
    IF s = <<>> THEN s
    ELSE IF Head(s) = Blank THEN strip(Tail(s))
    ELSE IF s[Len(s)] = Blank THEN strip(SubSeq(s, 1, Len(s) - 1))
    ELSE s

\* The post types in the order __init__ adds them to self.post_types.
added_post_types_always(a) ==
    <<(<<"pages">>), (<<"posts">>)>>
    \o (IF a.additional_post_types # None /\ a.additional_post_types.s # <<>>
        THEN LET segs == split(a.additional_post_types.s)
             IN [i \in DOMAIN segs |-> strip(segs[i])]
        ELSE <<>>)
added_post_types(a) ==
    (IF a.get_pages THEN <<(<<"pages">>)>> ELSE <<>>)
    \o (IF a.get_posts THEN <<(<<"posts">>)>> ELSE <<>>)
    \o (IF a.additional_post_types # None /\ a.additional_post_types.s # <<>>
        THEN LET segs == split(a.additional_post_types.s)
             IN [i \in DOMAIN segs |-> strip(segs[i])]
        ELSE <<>>)

\* list(set(...)): the set's elements once each, in an order the set picks.
post_type_lists_plain(added) == {added}
post_type_lists(added) ==
    LET S == Range(added)
        n == Cardinality(S)
    IN {l \in [1..n -> S] : \A i, j \in 1..n : l[i] = l[j] => i = j}

\* The attributes __init__ sets, for each order list(set) may give.
WordpressReader(a) ==
    {[url |-> a.url, username |-> a.username, password |-> a.password,
      page_limit |-> a.page_limit, post_types |-> l] :
        l \in post_type_lists(added_post_types(a))}

\* ------------------------------------------------------------- the remote site
IntV(n) == [tag |-> "int", n |-> n]
HTTPError(status) == [tag |-> "HTTPError", status |-> status]
ValueError == [tag |-> "ValueError"]
AttributeError == [tag |-> "AttributeError"]
TypeError == [tag |-> "TypeError"]
KeyError(key) == [tag |-> "KeyError", key |-> key]

Digits == <<"0", "1", "2", "3", "4", "5", "6", "7", "8", "9">>
DigitVal(c) == (CHOOSE i \in DOMAIN Digits : Digits[i] = c) - 1

\* The decimal text of n, as the site writes it into X-WP-TotalPages.
RECURSIVE Numeral(_)
Numeral(n) ==
    IF n < 10 THEN <<Digits[n + 1]>>
    ELSE Numeral(n \div 10) \o <<Digits[(n % 10) + 1]>>

Response(status, header, body) ==
    [status |-> status, header |-> header, body |-> body]

\* What the site answers to a request: a route or a page it does not have
\* is a non-success status.  A route with an entry for page 0 has no last
\* page: it answers every other page with that entry, reporting one page
\* more than the page asked for.
respond(srv, request) ==
    IF request.url.post_type \notin DOMAIN srv
    THEN Response(404, None, <<>>)
    ELSE IF request.url.page \in DOMAIN srv[request.url.post_type]
    THEN srv[request.url.post_type][request.url.page]
    ELSE IF 0 \in DOMAIN srv[request.url.post_type]
    THEN [srv[request.url.post_type][0] EXCEPT
              !.header = Str(Numeral(request.url.page + 1))]
    ELSE Response(400, None, <<>>)

\* ------------------------------------------------------------- get_posts_page
PerPage == 100
UserAgent == "Mozilla/5.0 (Macintosh; Intel Mac OS X 10_15_7)"

\* Python truth of a value: None, "" and {} are false.
truthy(v) ==
    CASE v.tag = "str" -> v.s # <<>>
      [] v.tag = "dict" -> DOMAIN v.d # {}
      [] OTHER -> FALSE

auth_of_either(s) ==
    IF truthy(s.username) \/ truthy(s.password)
    THEN [tag |-> "basic", username |-> s.username, password |-> s.password]
    ELSE None
auth_of(s) ==
    IF truthy(s.username) /\ truthy(s.password)
    THEN [tag |-> "basic", username |-> s.username, password |-> s.password]
    ELSE None

request_of(s, post_type, current_page) ==
    [url |-> [base |-> s.url, post_type |-> post_type,
              per_page |-> PerPage, page |-> current_page],
     auth |-> auth_of(s),
     user_agent |-> UserAgent]

\* response.raise_for_status(): the exception raised, or None.
raise_for_status_never(status) == None
raise_for_status(status) ==
    IF status >= 400 /\ status < 600 THEN HTTPError(status) ELSE None

\* int(text): [raised, v].
RECURSIVE digits_value(_)
digits_value(s) ==
    IF s = <<>> THEN 0
    ELSE 10 * digits_value(SubSeq(s, 1, Len(s) - 1)) + DigitVal(s[Len(s)])

int_of(text) ==
    IF text # <<>> /\ \A i \in DOMAIN text : text[i] \in Range(Digits)
    THEN [raised |-> None, v |-> digits_value(text)]
    ELSE [raised |-> ValueError, v |-> 0]

\* int(response_headers.get("X-WP-TotalPages", 1))
num_pages_of(header) ==
    IF header = None THEN [raised |-> None, v |-> 1] ELSE int_of(header.s)

next_page_of_always(num_pages, current_page) == IntV(current_page + 1)
next_page_of_inclusive(num_pages, current_page) ==
    IF num_pages >= current_page THEN IntV(current_page + 1) ELSE None
next_page_of(num_pages, current_page) ==
    IF num_pages > current_page THEN IntV(current_page + 1) ELSE None

\* get_posts_page(post_type, current_page) of reader s against site srv:
\* the request it sends and what it raises or returns.
get_posts_page(s, srv, post_type, current_page) ==
    LET request == request_of(s, post_type, current_page)
        response == respond(srv, request)
        failed == raise_for_status(response.status)
        num_pages == num_pages_of(response.header)
    IN IF failed # None
       THEN [request |-> request, raised |-> failed,
             articles |-> <<>>, next_page |-> None]
       ELSE IF num_pages.raised # None
       THEN [request |-> request, raised |-> num_pages.raised,
             articles |-> <<>>, next_page |-> None]
       ELSE [request |-> request, raised |-> None,
             articles |-> response.body,
             next_page |-> next_page_of(num_pages.v, current_page)]

\* ------------------------------------------------------------- load_data, one article
get(d, key, default) == IF key \in DOMAIN d THEN d[key] ELSE default

Tags == {"<p>", "</p>"}
\* BeautifulSoup(body).get_text(): the markup without its tags.
get_text(body) == SelectSeq(body, LAMBDA x : x \notin Tags)

Document(text, extra_info) == [text |-> text, extra_info |-> extra_info]

\* article.get("title", {}).get("rendered", None) or article.get("title")
resolve_title(article) ==
    LET t == get(article, "title", EmptyDict)
    IN IF t.tag # "dict"
       THEN [raised |-> AttributeError, v |-> None]
       ELSE LET r == get(t.d, "rendered", None)
            IN [raised |-> None,
                v |-> IF truthy(r) THEN r ELSE get(article, "title", None)]

\* Lines 84-89: the body, resolved and passed through BeautifulSoup, which
\* takes text only (a dict or None given as markup is taken to raise
\* TypeError).
resolve_body(article) ==
    LET c == get(article, "content", EmptyDict)
    IN IF c.tag # "dict"
       THEN [raised |-> AttributeError, v |-> <<>>]
       ELSE LET r == get(c.d, "rendered", None)
                body == IF r = None THEN get(article, "content", None) ELSE r
            IN IF body.tag # "str"
               THEN [raised |-> TypeError, v |-> <<>>]
               ELSE [raised |-> None, v |-> get_text(body.s)]

\* The body of the for loop over articles: what it raises, or the Document.
normalize(article) ==
    LET body == resolve_body(article)
        title == resolve_title(article)
        missing == {k \in {"id", "link", "modified"} : k \notin DOMAIN article}
    IN IF body.raised # None THEN [raised |-> body.raised, doc |-> None]
       ELSE IF title.raised # None THEN [raised |-> title.raised, doc |-> None]
       ELSE IF "id" \in missing THEN [raised |-> KeyError("id"), doc |-> None]
       ELSE IF "link" \in missing THEN [raised |-> KeyError("link"), doc |-> None]
       ELSE IF "modified" \in missing
       THEN [raised |-> KeyError("modified"), doc |-> None]
       ELSE [raised |-> None,
             doc |-> Document(body.v,
                              [id |-> article["id"], title |-> title.v,
                               url |-> article["link"],
                               updated_at |-> article["modified"]])]

\* ------------------------------------------------------------- inputs
Url == "https://example.com"
Pages == <<"pages">>
Posts == <<"posts">>
Docs == <<"docs">>
Hello == <<"Hello">>
Markup == <<"<p>", "Hi", "</p>">>

Restrict(f, S) == [k \in S |-> f[k]]
Keys == {"id", "link", "modified", "title", "content"}

\* A well-formed raw item in the nested shape.
Good(n) ==
    [id |-> n, link |-> <<"link", n>>, modified |-> <<"date", n>>,
     title |-> Dict([rendered |-> Str(Hello)]),
     content |-> Dict([rendered |-> Str(Markup)])]

TitleShapes ==
    {Str(Hello), Dict([rendered |-> Str(Hello)]), Dict([rendered |-> Str(<<>>)]),
     Dict([rendered |-> None]), EmptyDict}
ContentShapes ==
    {Str(Markup), Dict([rendered |-> Str(Markup)]), Dict([rendered |-> Str(<<>>)]),
     Dict([rendered |-> None]), EmptyDict}

\* Every raw item with id 1: each field present or absent, title and content
\* in each shape.
Articles ==
    {Restrict([Good(1) EXCEPT !.title = t, !.content = c], K) :
        t \in TitleShapes, c \in ContentShapes, K \in SUBSET Keys}

\* The items that pages of several items are made of.
Catalogue ==
    {Good(1), Good(2), [Good(3) EXCEPT !.title = Str(Hello)],
     Restrict(Good(4), Keys \ {"id"})}

Texts == SeqsUpTo(Alphabet, MaxLen)
Limits == {None} \cup {IntV(n) : n \in 0..MaxPage}
Names == {None, Str(<<>>), Str(<<"admin">>)}

Args(get_pages, get_posts, additional_post_types, page_limit, username, password) ==
    [url |-> Url, username |-> username, password |-> password,
     get_pages |-> get_pages, get_posts |-> get_posts,
     additional_post_types |-> additional_post_types,
     page_limit |-> page_limit]

Ok(total, body) == Response(200, Str(Numeral(total)), body)

\* A site of well-formed items: two pages of pages, one of posts, one of docs.
PlainSite ==
    (Pages :> (1 :> Ok(2, <<Good(1)>>) @@ 2 :> Ok(2, <<Good(2)>>)))
    @@ (Posts :> (1 :> Ok(1, <<Good(3)>>)))
    @@ (Docs :> (1 :> Ok(1, <<Good(4)>>)))

Headers == {None, Str(<<"x">>)} \cup {Str(Numeral(n)) : n \in 0..(MaxPage + 1)}

\* Sites whose pages route answers each page with any status and header.
Failing == [tag |-> "status", status |-> 500]
PagedSites ==
    {(Pages :> [p \in 1..MaxPage |->
                   IF h[p] = Failing THEN Response(Failing.status, None, <<>>)
                   ELSE Response(200, h[p], <<Good(p)>>)])
     @@ (Posts :> (1 :> Ok(2, <<Good(11)>>) @@ 2 :> Ok(2, <<Good(12)>>))) :
        h \in [1..MaxPage -> Headers \cup {Failing}]}

\* Sites of several pages of pages, one of them answered with an error status.
FailingSites ==
    {(Pages :> [p \in 1..MaxPage |->
                   IF p = q THEN Response(status, None, <<>>)
                   ELSE Ok(MaxPage, <<Good(p)>>)])
     @@ (Posts :> (1 :> Ok(2, <<Good(11)>>) @@ 2 :> Ok(2, <<Good(12)>>))) :
        q \in 1..MaxPage, status \in {403, 500}}

\* The site whose pages route never reports a last page.
EndlessSite == (Pages :> (0 :> Response(200, None, <<Good(0)>>)))

\* Sites whose first page of pages holds any items of the catalogue.
ItemSites ==
    {(Pages :> (1 :> Ok(2, b) @@ 2 :> Ok(2, <<Good(5)>>)))
     @@ (Posts :> (1 :> Response(200, None, <<Good(6)>>))) :
        b \in SeqsUpTo(Catalogue, MaxItems)}

\* Sites of one page of pages holding one raw item of any shape.
ShapeSites == {(Pages :> (1 :> Ok(1, <<a>>))) : a \in Articles}

\* The constructor calls and sites explored: each family is wide in one
\* respect and plain in the others.
Inputs ==
    {<<Args(gp, go, ad, pl, None, None), PlainSite>> :
        gp \in BOOLEAN, go \in BOOLEAN,
        ad \in {None} \cup {Str(t) : t \in Texts}, pl \in {None, IntV(1)}}
    \cup {<<Args(TRUE, FALSE, None, None, u, pw), PlainSite>> :
        u \in Names, pw \in Names}
    \cup {<<Args(TRUE, FALSE, None, pl, None, None), site>> :
        pl \in Limits, site \in PagedSites}
    \cup {<<Args(TRUE, TRUE, None, pl, None, None), site>> :
        pl \in {None, IntV(1)}, site \in FailingSites}
    \cup {<<Args(TRUE, FALSE, None, pl, None, None), EndlessSite>> : pl \in Limits}
    \cup {<<Args(TRUE, go, None, pl, None, None), site>> :
        go \in BOOLEAN, pl \in {None, IntV(1)}, site \in ItemSites}
    \cup {<<Args(TRUE, FALSE, None, None, None, None), site>> : site \in ShapeSites}

\* ------------------------------------------------------------- the reader
NoOutcome == [tag |-> "none"]
Returned(value) == [tag |-> "returned", value |-> value]
Raised(exc) == [tag |-> "raised", exc |-> exc]

Init ==
    /\ \E in \in Inputs : args = in[1] /\ server = in[2]
    /\ self \in WordpressReader(args)
    /\ pc = "idle"
    /\ calls = 0
    /\ idx = 1
    /\ posts = <<>>
    /\ next_page = IntV(1)
    /\ pages_fetched = 0
    /\ articles = <<>>
    /\ results = <<>>
    /\ art = 1
    /\ requests = <<>>
    /\ returned_posts = <<>>
    /\ outcome = NoOutcome
    /\ prev = [requests |-> <<>>, outcome |-> NoOutcome]

\* Lines 75-76: load_data's lists start empty on every call.
stale_articles == articles
fresh_articles == <<>>

\* list.extend
extend_front(list, items) == items \o list
extend(list, items) == list \o items

\* Line 126: the page limit is set and reached.
limit_reached_never(page_limit, fetched) == FALSE
limit_reached_after(page_limit, fetched) ==
    page_limit # None /\ fetched > page_limit.n
limit_reached(page_limit, fetched) ==
    page_limit # None /\ fetched >= page_limit.n

\* load_data() is called (lines 60-76).
LoadDataBegin ==
    /\ pc = "idle"
    /\ calls < MaxCalls
    /\ prev' = IF calls > 0 THEN [requests |-> requests, outcome |-> outcome]
               ELSE prev
    /\ results' = <<>>
    /\ articles' = fresh_articles
    /\ requests' = <<>>
    /\ returned_posts' = <<>>
    /\ outcome' = NoOutcome
    /\ idx' = 1
    /\ pc' = "for_post_type"
    /\ UNCHANGED <<args, self, server, calls, posts, next_page, pages_fetched, art>>

\* Line 79 takes the next post type and get_all_posts starts (lines 112-114).
NextPostType ==
    /\ pc = "for_post_type"
    /\ idx <= Len(self.post_types)
    /\ posts' = <<>>
    /\ next_page' = IntV(1)
    /\ pages_fetched' = 0
    /\ pc' = "get_all_posts"
    /\ UNCHANGED <<args, self, server, calls, idx, articles, results, art,
                   requests, returned_posts, outcome, prev>>

\* One pass of the while loop of get_all_posts (lines 116-127) and, when it
\* breaks, the return and line 80.  An exception of get_posts_page ends
\* load_data.  The loop has no bound of its own: the model follows it for
\* MaxPage + 2 passes, one more than a site with a last page can answer.
FetchPage ==
    /\ pc = "get_all_posts"
    /\ pages_fetched <= MaxPage + 1
    /\ LET post_type == self.post_types[idx]
           response == get_posts_page(self, server, post_type, next_page.n)
           fetched == pages_fetched + 1
           got == extend(posts, response.articles)
       IN /\ requests' = Append(requests, response.request)
          /\ IF response.raised # None
             THEN /\ outcome' = Raised(response.raised)
                  /\ calls' = calls + 1
                  /\ pc' = "idle"
                  /\ UNCHANGED <<posts, next_page, pages_fetched, articles,
                                 returned_posts, idx>>
             ELSE /\ posts' = got
                  /\ next_page' = response.next_page
                  /\ pages_fetched' = fetched
                  /\ IF response.next_page = None
                        \/ limit_reached(self.page_limit, fetched)
                     THEN /\ articles' = extend(articles, got)
                          /\ returned_posts' =
                                 Append(returned_posts,
                                        [post_type |-> post_type, posts |-> got])
                          /\ idx' = idx + 1
                          /\ pc' = "for_post_type"
                     ELSE UNCHANGED <<articles, returned_posts, idx, pc>>
                  /\ UNCHANGED <<outcome, calls>>
    /\ UNCHANGED <<args, self, server, results, art, prev>>

\* The for loop over the post types is over: line 83 starts.
ArticlesBegin_early ==
    /\ pc = "for_post_type"
    /\ articles # <<>>
    /\ art' = 1
    /\ pc' = "for_article"
    /\ UNCHANGED <<args, self, server, calls, idx, posts, next_page,
                   pages_fetched, articles, results, requests, returned_posts,
                   outcome, prev>>
ArticlesBegin ==
    /\ pc = "for_post_type"
    /\ idx > Len(self.post_types)
    /\ art' = 1
    /\ pc' = "for_article"
    /\ UNCHANGED <<args, self, server, calls, idx, posts, next_page,
                   pages_fetched, articles, results, requests, returned_posts,
                   outcome, prev>>

\* One pass of the for loop over articles (lines 83-107).
NextArticle ==
    /\ pc = "for_article"
    /\ art <= Len(articles)
    /\ LET n == normalize(articles[art])
       IN IF n.raised # None
          THEN /\ outcome' = Raised(n.raised)
               /\ calls' = calls + 1
               /\ pc' = "idle"
               /\ UNCHANGED <<results, art>>
          ELSE /\ results' = Append(results, n.doc)
               /\ art' = art + 1
               /\ UNCHANGED <<outcome, calls, pc>>
    /\ UNCHANGED <<args, self, server, idx, posts, next_page, pages_fetched,
                   articles, requests, returned_posts, prev>>

\* Line 108: return results.
LoadDataReturn ==
    /\ pc = "for_article"
    /\ art > Len(articles)
    /\ outcome' = Returned(results)
    /\ calls' = calls + 1
    /\ pc' = "idle"
    /\ UNCHANGED <<args, self, server, idx, posts, next_page, pages_fetched,
                   articles, results, art, requests, returned_posts, prev>>

Next ==
    \/ LoadDataBegin
    \/ NextPostType
    \/ FetchPage
    \/ ArticlesBegin
    \/ NextArticle
    \/ LoadDataReturn

Spec == Init /\ [][Next]_vars

TypeOK ==
    /\ pc \in {"idle", "for_post_type", "get_all_posts", "for_article"}
    /\ calls \in 0..MaxCalls
    /\ outcome.tag \in {"none", "returned", "raised"}

\* ------------------------------------------------------------- properties
Answer(request) == respond(server, request)
RequestsFor(t) == SelectSeq(requests, LAMBDA r : r.url.post_type = t)
Success(status) == status \in 200..299
Ended == pc = "idle" /\ calls > 0
\* The fetch calls min(total, page_limit or infinity) allows.
Allowed(total) ==
    IF self.page_limit = None THEN total ELSE Min(total, self.page_limit.n)
\* Every response get_all_posts got for post type t reported `total` pages.
Reported(t, total) ==
    \A r \in Range(RequestsFor(t)) :
        /\ Success(Answer(r).status)
        /\ num_pages_of(Answer(r).header) = [raised |-> None, v |-> total]

\* C1 as stated: for every post type whose pagination has ended, with
\* page_limit unset or positive, the number of get_posts_page calls made for
\* it is min(total_pages, page_limit or infinity), total_pages being the
\* total every response reported.
C1_CallsAreMinOfTotalAndLimit ==
    \A i \in DOMAIN returned_posts : \A total \in 0..(MaxPage + 1) :
        (/\ self.page_limit = None \/ self.page_limit.n >= 1
         /\ Reported(returned_posts[i].post_type, total))
        => Len(RequestsFor(returned_posts[i].post_type)) = Allowed(total)

\* C1 as amended: the number of calls is max(1, min(total_pages, page_limit
\* or infinity)); the first page is always fetched, also when the reported
\* total is 0.
C1_CallsAreAtLeastOne ==
    \A i \in DOMAIN returned_posts : \A total \in 0..(MaxPage + 1) :
        Reported(returned_posts[i].post_type, total)
        => Len(RequestsFor(returned_posts[i].post_type)) = Max(1, Allowed(total))

C1_Witness ==
    /\ Ended /\ outcome.tag = "returned"
    /\ self.page_limit = None
    /\ Reported(Pages, 3)
    /\ Len(RequestsFor(Pages)) = 3

\* C2: with page_limit = N >= 1 and every response for a post type reporting
\* more than N pages, get_all_posts requests exactly the pages 1..N of that
\* type and returns exactly their items.
C2_LimitGivesExactlyNPages ==
    \A i \in DOMAIN returned_posts :
        LET t == returned_posts[i].post_type
            reqs == RequestsFor(t)
        IN (/\ self.page_limit # None
            /\ self.page_limit.n >= 1
            /\ \A r \in Range(reqs) :
                   /\ Success(Answer(r).status)
                   /\ num_pages_of(Answer(r).header).raised = None
                   /\ num_pages_of(Answer(r).header).v > self.page_limit.n)
           => /\ Len(reqs) = self.page_limit.n
              /\ \A p \in DOMAIN reqs : reqs[p].url.page = p
              /\ returned_posts[i].posts =
                     Concat([p \in 1..self.page_limit.n |-> Answer(reqs[p]).body])

C2_Witness ==
    /\ Ended /\ outcome.tag = "returned"
    /\ self.page_limit = IntV(2)
    /\ \A p \in 1..2 : server[Pages][p].header = Str(Numeral(3))
    /\ Len(RequestsFor(Pages)) = 2
    /\ \E i \in DOMAIN returned_posts :
           /\ returned_posts[i].post_type = Pages
           /\ Len(returned_posts[i].posts) = 2

\* C3: a request answered with a non-success status is the last request of
\* the call and was sent once, and the call has ended raising the error of
\* that status, with no Document built.
C3_FetchErrorAbortsLoadData ==
    \A i \in DOMAIN requests :
        ~Success(Answer(requests[i]).status)
        => /\ i = Len(requests)
           /\ \A j \in DOMAIN requests : requests[j] = requests[i] => j = i
           /\ pc = "idle"
           /\ outcome = Raised(HTTPError(Answer(requests[i]).status))
           /\ results = <<>>

C3_Witness ==
    /\ Ended
    /\ outcome = Raised(HTTPError(500))
    /\ Len(requests) = 2
    /\ requests[1].url.post_type = Pages /\ requests[1].url.page = 1
    /\ requests[2].url.post_type = Pages /\ requests[2].url.page = 2
    /\ idx < Len(self.post_types)

\* C4: a successful response whose X-WP-TotalPages header is absent or is not
\* an integer makes get_posts_page return the page's items and no next page.
C4_HeaderLeniency ==
    \A i \in DOMAIN requests :
        LET answer == Answer(requests[i])
            got == get_posts_page(self, server, requests[i].url.post_type,
                                  requests[i].url.page)
        IN (/\ Success(answer.status)
            /\ \/ answer.header = None
               \/ int_of(answer.header.s).raised # None)
           => /\ got.raised = None
              /\ got.articles = answer.body
              /\ got.next_page = None

\* The item is in a shape of the data model but for its title.
PlainButTitle(a) ==
    /\ {"id", "link", "modified", "title", "content"} \subseteq DOMAIN a
    /\ a["content"] = Dict([rendered |-> Str(Markup)])

\* C5: a fetched item whose title is {rendered: "Hello"} and one whose title is
\* "Hello" both normalize, to the title "Hello".
C5_TitleShapesAgree ==
    \A i \in DOMAIN articles :
        (/\ PlainButTitle(articles[i])
         /\ articles[i]["title"] \in {Str(Hello), Dict([rendered |-> Str(Hello)])})
        => /\ normalize(articles[i]).raised = None
           /\ normalize(articles[i]).doc.extra_info.title = Str(Hello)

\* The item's title and content, where present, are in a shape of the data
\* model: a string, or {rendered: string}.
ShapeOfDataModel(a) ==
    /\ "title" \in DOMAIN a
    /\ "content" \in DOMAIN a
    /\ a["title"] \in {Str(Hello), Dict([rendered |-> Str(Hello)])}
    /\ a["content"] \in {Str(Markup), Dict([rendered |-> Str(Markup)])}
Fetched == Len(returned_posts) = Len(self.post_types)

\* C6: when the items fetched include one without id, link or modified,
\* load_data() ends raising the missing-field error (KeyError) and returns
\* nothing.
C6_MissingFieldFailsWithKeyError ==
    (/\ Ended /\ Fetched
     /\ \A i \in DOMAIN articles : ShapeOfDataModel(articles[i])
     /\ \E i \in DOMAIN articles :
            ~({"id", "link", "modified"} \subseteq DOMAIN articles[i]))
    => /\ outcome.tag = "raised"
       /\ outcome.exc.tag = "KeyError"

\* C7: with get_pages and get_posts false and no additional_post_types,
\* load_data() sends no request, raises nothing and returns no Document.
C7_NoTypesNoRequests ==
    (~args.get_pages /\ ~args.get_posts /\ args.additional_post_types = None)
    => /\ self.post_types = <<>>
       /\ requests = <<>>
       /\ outcome.tag # "raised"
       /\ outcome.tag = "returned" => outcome.value = <<>>

C7_Witness ==
    /\ ~args.get_pages /\ ~args.get_posts /\ args.additional_post_types = None
    /\ Ended
    /\ outcome = Returned(<<>>)

\* The items of the responses to the requests, in request order.
FetchedItems == Concat([i \in DOMAIN requests |-> Answer(requests[i]).body])

\* C8: load_data() returns one Document per fetched item, in the order of the
\* requests and of the items in each response, carrying the item's id, link
\* and modified; the requests of one post type are adjacent and in ascending
\* page order.
C8_DocumentsFollowItems ==
    (Ended /\ outcome.tag = "returned")
    => /\ Len(outcome.value) = Len(FetchedItems)
       /\ \A i \in DOMAIN FetchedItems :
              /\ outcome.value[i].extra_info.id = FetchedItems[i]["id"]
              /\ outcome.value[i].extra_info.url = FetchedItems[i]["link"]
              /\ outcome.value[i].extra_info.updated_at = FetchedItems[i]["modified"]
       /\ \A i, j \in DOMAIN requests :
              (i < j /\ requests[i].url.post_type = requests[j].url.post_type)
              => /\ requests[i].url.page < requests[j].url.page
                 /\ \A k \in i..j :
                        requests[k].url.post_type = requests[i].url.post_type

C8_Witness ==
    /\ Ended /\ outcome.tag = "returned"
    /\ Len(requests) = 3
    /\ Len(Answer(requests[1]).body) = 2
    /\ Len(outcome.value) = 4
    /\ requests[1].url.post_type # requests[3].url.post_type

\* C9: self.post_types holds no post type twice and none with blanks around
\* it, and a load_data() call requests page 1 of each post type at most once,
\* exactly once when it returns.
C9_EachTypeOnce ==
    /\ \A i, j \in DOMAIN self.post_types :
           self.post_types[i] = self.post_types[j] => i = j
    /\ \A i \in DOMAIN self.post_types :
           LET t == self.post_types[i]
           IN t # <<>> => (t[1] # Blank /\ t[Len(t)] # Blank)
    /\ \A i \in DOMAIN self.post_types :
           LET first == SelectSeq(RequestsFor(self.post_types[i]),
                                  LAMBDA r : r.url.page = 1)
           IN /\ Len(first) <= 1
              /\ (Ended /\ outcome.tag = "returned") => Len(first) = 1

C9_Witness ==
    /\ args.get_posts
    /\ args.additional_post_types = Str(<<Blank, "posts">>)
    /\ Ended /\ outcome.tag = "returned"
    /\ Len(SelectSeq(requests, LAMBDA r : r.url.post_type = Posts)) = 1

\* C10: no step of load_data() changes the reader's attributes, and a second
\* load_data() against the same site sends the same requests and ends the
\* same way as the first.
C10_ReaderUnchangedCallsRepeat ==
    /\ [][self' = self]_vars
    /\ []((Ended /\ calls >= 2)
          => (prev.requests = requests /\ prev.outcome = outcome))

C10_Witness ==
    /\ Ended /\ calls = 2
    /\ outcome.tag = "returned"
    /\ Len(outcome.value) >= 2
    /\ prev.outcome = outcome
    /\ Len(prev.requests) >= 2

\* The total page count a response reports, as get_posts_page reads it.
Total(request) == num_pages_of(Answer(request).header)

\* C11: the requests of one post type are for the pages 1, 2, .., k in this
\* order, and every page but the last requested was answered with success
\* and a reported total above its page number.
C11_PagesInOrder ==
    \A i \in DOMAIN self.post_types :
        LET reqs == RequestsFor(self.post_types[i])
        IN /\ \A p \in DOMAIN reqs : reqs[p].url.page = p
           /\ \A p \in DOMAIN reqs :
                  p < Len(reqs)
                  => /\ Success(Answer(reqs[p]).status)
                     /\ Total(reqs[p]).raised = None
                     /\ Total(reqs[p]).v > p

C11_Witness ==
    /\ Ended /\ outcome.tag = "returned"
    /\ Len(RequestsFor(Pages)) = 3
    /\ Total(RequestsFor(Pages)[1]).v = 2
    /\ Total(RequestsFor(Pages)[2]).v = 3
    /\ Total(RequestsFor(Pages)[3]).v = 3

\* The item is in a shape of the data model but for its content.
PlainButContent(a) ==
    /\ {"id", "link", "modified", "title", "content"} \subseteq DOMAIN a
    /\ a["title"] = Dict([rendered |-> Str(Hello)])

\* C12: when every fetched item has its content as {rendered: text} or as
\* the flat string text, load_data() returns, and every Document's text is
\* the text extracted from that content.
C12_BodyResolution ==
    (/\ Ended /\ Fetched
     /\ \A i \in DOMAIN articles :
            /\ PlainButContent(articles[i])
            /\ articles[i]["content"] \in
                   {Str(Markup), Dict([rendered |-> Str(Markup)])})
    => /\ outcome.tag = "returned"
       /\ Len(outcome.value) = Len(articles)
       /\ \A i \in DOMAIN outcome.value :
              outcome.value[i].text = get_text(Markup)

\* C13: the Document built from an item whose title.rendered is present and
\* not null, the empty string included, has title.rendered as its title.
C13_RenderedTitleWins ==
    \A i \in DOMAIN results :
        LET t == get(articles[i], "title", EmptyDict)
        IN (/\ t.tag = "dict"
            /\ "rendered" \in DOMAIN t.d
            /\ t.d["rendered"] # None)
           => results[i].extra_info.title = t.d["rendered"]

\* C14: no request of load_data() is for the empty post type.
C14_NoEmptyPostType ==
    \A i \in DOMAIN requests : requests[i].url.post_type # <<>>

Basic(username, password) ==
    [tag |-> "basic", username |-> username, password |-> password]

FetchErrors == {"HTTPError", "ValueError"}

\* C16: within a load_data() call no Document is built and no item is
\* normalized before get_all_posts has returned for every post type, and no
\* request is sent after that: an error of a fetch finds no Document built,
\* and an error of an item finds every page of every post type fetched.
C16_FetchBeforeNormalize ==
    /\ results # <<>> => Fetched
    /\ pc = "for_article" => Fetched
    /\ pc = "get_all_posts" => (~Fetched /\ results = <<>>)
    /\ outcome.tag = "raised"
       => IF outcome.exc.tag \in FetchErrors
          THEN results = <<>> /\ ~Fetched
          ELSE Fetched

C16_Witness ==
    /\ Ended
    /\ outcome = Raised(KeyError("id"))
    /\ Len(requests) = 3
    /\ "id" \notin DOMAIN Answer(requests[1]).body[1]
    /\ requests[3].url.post_type # requests[1].url.post_type

\* C17: with page_limit = N >= 1 no post type gets more than N requests,
\* whatever totals the responses report; with page_limit unset,
\* get_all_posts returns only after a page whose reported total is at most
\* its page number, and while every response reported a total above its
\* page number the loop is still fetching.
C17_LimitBoundsFetches ==
    /\ (self.page_limit # None /\ self.page_limit.n >= 1)
       => \A i \in DOMAIN self.post_types :
              Len(RequestsFor(self.post_types[i])) <= self.page_limit.n
    /\ self.page_limit = None
       => /\ \A i \in DOMAIN returned_posts :
                 LET reqs == RequestsFor(returned_posts[i].post_type)
                 IN Total(reqs[Len(reqs)]).v <= Len(reqs)
          /\ \A i \in DOMAIN self.post_types :
                 LET reqs == RequestsFor(self.post_types[i])
                 IN (/\ reqs # <<>>
                     /\ \A p \in DOMAIN reqs :
                            /\ Success(Answer(reqs[p]).status)
                            /\ Total(reqs[p]).raised = None
                            /\ Total(reqs[p]).v > p)
                    => (pc = "get_all_posts" /\ idx = i)

C17_Witness ==
    /\ self.page_limit = None
    /\ pc = "get_all_posts"
    /\ pages_fetched = MaxPage + 2
    /\ Len(requests) = MaxPage + 2
    /\ \A p \in DOMAIN requests :
           Success(Answer(requests[p]).status) /\ Total(requests[p]).v = p + 1
=============================================================================
